---- MODULE Spec2Model ----
(***************************************************************************)
(* The Cloudflare Radar ETL pipeline of src/src/extract/cloudflare.py and  *)
(* the scaffold pipeline of src/network_data_etl.                          *)
(*                                                                         *)
(* Decoded JSON payloads are functions from keys to values (a key that is  *)
(* absent is outside the DOMAIN).  A DataFrame is a record                 *)
(*   [cols |-> set of column names, rows |-> sequence of rows]             *)
(* whose rows are functions from cols to cells.  Text cells are strings,   *)
(* with None for a missing value (python None, pandas NaN in an object     *)
(* column); metric cells are naturals, with NaN for a missing number.      *)
(* A CSV file holds text: a missing cell is written as the empty string.   *)
(***************************************************************************)
EXTENDS Integers, Sequences, FiniteSets, TLC

VARIABLES
  pc,        \* position of the run: which stage comes next
  payload,   \* the decoded payload handed to a normalizer
  result,    \* what the normalizer returned
  files,     \* table storage: file name -> content
  outcome,   \* how update_master_warehouse ended
  run,       \* which execution of the script this is, counted from 1
  start,     \* table storage as it was when this run started
  log,       \* the steps of __main__ this run has completed, in order
  configs,     \* network_data_etl: the datasets load_config returned
  tasks,       \* network_data_etl: the fetch coroutines gather runs
  raw_results, \* network_data_etl: main's raw_results
  pos,         \* network_data_etl: how far main's loop over zip(...) has come
  saved        \* network_data_etl: the data/ directory, name -> content

vars == <<pc, payload, result, files, outcome, run, start, log,
          configs, tasks, raw_results, pos, saved>>

\* the state of the src/ script and the state of the network_data_etl package
scriptVars == <<payload, result, files, outcome, run, start, log>>
packageVars == <<configs, tasks, raw_results, pos, saved>>

----------------------------------------------------------------------------
(* Values *)

\* python None / pandas NaN in a text column
None == "<None>"
\* pandas NaN in a numeric column
NaN == -1
\* an empty CSV cell
Blank == ""

\* bool(x) of a text value: None and "" are falsy
Truthy(s) == s \notin {None, Blank}

\* dict.get(key): None when the key is absent
Get(item, key) == IF key \in DOMAIN item THEN item[key] ELSE None

\* dict.get(key, default)
GetOr(item, key, default) == IF key \in DOMAIN item THEN item[key] ELSE default

\* str.lower(), as far as the comparisons with "namibia" can tell
Lower(s) == IF s \in {"Namibia", "NAMIBIA", "namibia"} THEN "namibia" ELSE s

----------------------------------------------------------------------------
(* The country identity service (pycountry) *)

\* pycountry.countries.get(alpha_2=...).alpha_3; None when there is no such country
Alpha3Of(iso2) ==
  CASE iso2 = "US" -> "USA"
    [] iso2 = "FR" -> "FRA"
    [] iso2 = "KE" -> "KEN"
    [] iso2 = "NA" -> "NAM"
    [] OTHER -> None

\* pycountry.countries.get(alpha_3=...).name; None when there is no such country
NameOfAlpha3(iso3) ==
  CASE iso3 = "USA" -> "United States"
    [] iso3 = "FRA" -> "France"
    [] iso3 = "KEN" -> "Kenya"
    [] iso3 = "NAM" -> "Namibia"
    [] OTHER -> None

\* pycountry.countries.search_fuzzy(name)[0].alpha_2; None stands for LookupError
SearchFuzzy(name) ==
  CASE name \in {"United States", "USA"} -> "US"
    [] name = "France" -> "FR"
    [] name \in {"Kenya", "Kenia"} -> "KE"
    [] Lower(name) = "namibia" -> "NA"
    [] OTHER -> None

AFRICAN_COUNTRIES_ISO3 ==
  { "DZA", "AGO", "BEN", "BWA", "BFA", "BDI", "CMR", "CPV", "CAF", "TCD", "COM", "COG",
    "COD", "DJI", "EGY", "GNQ", "ERI", "SWZ", "ETH", "GAB", "GMB", "GHA", "GIN", "GNB",
    "CIV", "KEN", "LSO", "LBR", "LBY", "MDG", "MWI", "MLI", "MRT", "MUS", "MAR", "MOZ",
    "NAM", "NER", "NGA", "RWA", "STP", "SEN", "SYC", "SLE", "SOM", "ZAF", "SSD", "SDN",
    "TZA", "TGO", "TUN", "UGA", "ZMB", "ZWE" }

----------------------------------------------------------------------------
(* DataFrames *)

\* pd.DataFrame(): no columns, no rows
EmptyFrame == [cols |-> {}, rows |-> <<>>]

\* pd.DataFrame(list of dicts that all have the keys `cols`)
Frame(cols, rows) == IF rows = <<>> THEN EmptyFrame ELSE [cols |-> cols, rows |-> rows]

\* a normalizer's return value
Returned(df) == [kind |-> "frame", df |-> df]
Raised(exc) == [kind |-> "raise", exc |-> exc]

\* the text values of the model in lexicographic order (python's str order)
StrOrder ==
  << "", "0.0", "Atlantis", "FR", "France", "KE", "Kenia", "Kenya", "NA", "NAMIBIA",
     "Namibia", "US", "USA", "United States", "Unknown" >>

\* position of a text value in the sort order; missing values sort last
Rank(s) ==
  IF \E i \in DOMAIN StrOrder : StrOrder[i] = s
  THEN CHOOSE i \in DOMAIN StrOrder : StrOrder[i] = s
  ELSE Len(StrOrder) + 1

\* a row {"country_code_iso2": code, "country_name": name, value_key: value}
CountryRow(code_col, code, name, value_key, value) ==
  [k \in {code_col, "country_name", value_key} |->
     IF k = code_col THEN code ELSE IF k = "country_name" THEN name ELSE value]

----------------------------------------------------------------------------
(* Dataset normalizers *)

\* `not data`: the payload is None or an empty dict
NotData(data) == ~data.given \/ DOMAIN data.body = {}

\* lines 84-98: the country code of one location record
LocationCode(item) ==
  LET country_code == Get(item, "clientCountryAlpha2")
      country_name == Get(item, "clientCountryName")
      inferred ==
        IF Truthy(country_code) THEN country_code
        ELSE IF Truthy(country_name) /\ Lower(country_name) = "namibia" THEN "NA"
        ELSE IF Truthy(country_name)
             THEN IF SearchFuzzy(country_name) # None
                  THEN SearchFuzzy(country_name) ELSE "Unknown"
        ELSE country_code
  IN IF Truthy(inferred) THEN inferred ELSE "Unknown"

process_top_locations_data(data, value_key, name_key) ==
  IF NotData(data) \/ name_key \notin DOMAIN data.body THEN Returned(EmptyFrame)
  ELSE LET items == data.body[name_key]
           processed ==
             [i \in DOMAIN items |->
                CountryRow("country_code_iso2", LocationCode(items[i]),
                           Get(items[i], "clientCountryName"),
                           value_key, GetOr(items[i], "value", NaN))]
       IN Returned(Frame({"country_code_iso2", "country_name", value_key}, processed))

QualityKeys ==
  << <<"bandwidth_download", "bandwidthDownload">>, <<"bandwidth_upload", "bandwidthUpload">>,
     <<"latency_idle", "latencyIdle">>, <<"latency_loaded", "latencyLoaded">>,
     <<"jitter_idle", "jitterIdle">>, <<"jitter_loaded", "jitterLoaded">> >>

QualityCols == {QualityKeys[i][1] : i \in DOMAIN QualityKeys}

process_quality_data(data) ==
  IF NotData(data) \/ "top_0" \notin DOMAIN data.body THEN Returned(EmptyFrame)
  ELSE LET items == data.body["top_0"]
           row(item) ==
             [k \in {"country_code_iso2", "country_name"} \cup QualityCols |->
                IF k = "country_code_iso2" THEN LocationCode(item)
                ELSE IF k = "country_name" THEN Get(item, "clientCountryName")
                ELSE LET j == CHOOSE j \in DOMAIN QualityKeys : QualityKeys[j][1] = k
                     IN GetOr(item, QualityKeys[j][2], NaN)]
       IN Returned(Frame({"country_code_iso2", "country_name"} \cup QualityCols,
                         [i \in DOMAIN items |-> row(items[i])]))

\* lines 148-156: the country code an attack normalizer gives one event
AttackCode(item, country_key, name_key_field) ==
  LET country_code == Get(item, country_key)
      country_name == Get(item, name_key_field)
      fixed == IF ~Truthy(country_code) /\ Truthy(country_name)
                  /\ Lower(country_name) = "namibia"
               THEN "NA" ELSE country_code
  IN IF Truthy(fixed) THEN fixed ELSE "Unknown"

\* the payloads of attack events: the values of one payload are all numbers or
\* all text (the JSON strings "0.5", ...), and the shape tells which
AttackShapes == {"attacks", "text attacks"}
IsText(data) == data.shape = "text attacks"

\* lines 158-159, python's += on two values: numbers are added, str values
\* are joined
Plus(a, b, text) == IF text THEN a \o b ELSE a + b

\* lines 147-165: the accumulation loop over the first n events; the result is
\* list(aggregated.values()), in insertion order
RECURSIVE Aggregate(_, _, _, _, _, _)
Aggregate(items, n, country_key, name_key_field, value_key, text) ==
  IF n = 0 THEN <<>>
  ELSE LET aggregated == Aggregate(items, n - 1, country_key, name_key_field, value_key, text)
           item == items[n]
           country_code == AttackCode(item, country_key, name_key_field)
           attack_value == GetOr(item, "value", 0)
       IN IF \E i \in DOMAIN aggregated : aggregated[i]["country_code_iso2"] = country_code
          THEN [i \in DOMAIN aggregated |->
                  IF aggregated[i]["country_code_iso2"] = country_code
                  THEN [aggregated[i] EXCEPT ![value_key] = Plus(@, attack_value, text)]
                  ELSE aggregated[i]]
          ELSE Append(aggregated,
                      CountryRow("country_code_iso2", country_code,
                                 Get(item, name_key_field), value_key, attack_value))

AggregatedFrame(items, country_key, name_key_field, value_key, text) ==
  Frame({"country_code_iso2", "country_name", value_key},
        Aggregate(items, Len(items), country_key, name_key_field, value_key, text))

process_layer3_attacks_data(data, value_key, name_key) ==
  IF NotData(data) \/ name_key \notin DOMAIN data.body THEN Returned(EmptyFrame)
  ELSE LET items == data.body[name_key]
       IN IF items = <<>> THEN Raised("IndexError")
          ELSE LET is_target == "targetCountryAlpha2" \in DOMAIN items[1]
                   country_key == IF is_target THEN "targetCountryAlpha2"
                                  ELSE "originCountryAlpha2"
                   name_key_field == IF is_target THEN "targetCountryName"
                                     ELSE "originCountryName"
               IN Returned(AggregatedFrame(items, country_key, name_key_field, value_key,
                                              IsText(data)))

process_layer7_attacks_data(data, value_key, name_key) ==
  IF NotData(data) \/ name_key \notin DOMAIN data.body THEN Returned(EmptyFrame)
  ELSE LET items == data.body[name_key]
       IN IF items = <<>> THEN Raised("IndexError")
          ELSE LET has_origin == "originCountryAlpha2" \in DOMAIN items[1]
                   has_target == "targetCountryAlpha2" \in DOMAIN items[1]
               IN IF has_origin /\ ~has_target
                  THEN Returned(AggregatedFrame(items, "originCountryAlpha2",
                                                "originCountryName", value_key,
                                                IsText(data)))
                  ELSE IF has_target /\ ~has_origin
                  THEN Returned(AggregatedFrame(items, "targetCountryAlpha2",
                                                "targetCountryName", value_key,
                                                IsText(data)))
                  ELSE [kind |-> "split",
                        origin |-> AggregatedFrame(items, "originCountryAlpha2",
                                     "originCountryName", "layer7_top_origin_attacks",
                                     IsText(data)),
                        target |-> AggregatedFrame(items, "targetCountryAlpha2",
                                     "targetCountryName", "layer7_top_target_attacks",
                                     IsText(data))]

\* lines 3-15 of processors.py (the scaffold pipeline)
process_top_locations(data, value_key) ==
  IF NotData(data) \/ "main" \notin DOMAIN data.body THEN Returned(EmptyFrame)
  ELSE LET items == data.body["main"]
       IN Returned(Frame({"country_code", "country_name", value_key},
            [i \in DOMAIN items |->
               CountryRow("country_code", GetOr(items[i], "clientCountryAlpha2", "Unknown"),
                          GetOr(items[i], "clientCountryName", "Unknown"),
                          value_key, GetOr(items[i], "value", 0))]))

\* lines 273-280: the rows one annotation contributes
AnnotationRows(annotation) ==
  LET locations == GetOr(annotation, "locations", <<>>)
      details == GetOr(annotation, "locationsDetails", <<>>)
      hits(loc_code) == {j \in DOMAIN details : details[j]["code"] = loc_code}
      name_of(loc_code) ==
        IF hits(loc_code) = {} THEN "Unknown"
        ELSE LET j == CHOOSE j \in hits(loc_code) : \A o \in hits(loc_code) : j <= o
             IN GetOr(details[j], "name", "Unknown")
  IN [i \in DOMAIN locations |->
        CountryRow("country_code_iso2", locations[i], name_of(locations[i]), "outages", 1)]

RECURSIVE OutageRows(_, _)
OutageRows(annotations, n) ==
  IF n = 0 THEN <<>>
  ELSE OutageRows(annotations, n - 1) \o AnnotationRows(annotations[n])

\* order of the group keys (country_code_iso2, country_name)
KeyLeq(a, b) == Rank(a[1]) < Rank(b[1]) \/ (a[1] = b[1] /\ Rank(a[2]) <= Rank(b[2]))

RECURSIVE SortedKeys(_)
SortedKeys(keys) ==
  IF keys = {} THEN <<>>
  ELSE LET k == CHOOSE k \in keys : \A o \in keys : KeyLeq(k, o)
       IN <<k>> \o SortedKeys(keys \ {k})

RECURSIVE SumColumn(_, _, _)
SumColumn(rows, col, n) ==
  IF n = 0 THEN 0 ELSE SumColumn(rows, col, n - 1) + rows[n][col]

\* line 281: groupby(["country_code_iso2", "country_name"], as_index=False).sum();
\* rows whose key holds a missing value are dropped, groups come out sorted
GroupByCodeAndName(rows, value_key) ==
  LET kept == SelectSeq(rows, LAMBDA r : r["country_code_iso2"] # None /\ r["country_name"] # None)
      keys == SortedKeys({<<kept[i]["country_code_iso2"], kept[i]["country_name"]>> : i \in DOMAIN kept})
      group(k) == SelectSeq(kept, LAMBDA r : <<r["country_code_iso2"], r["country_name"]>> = k)
  IN [i \in DOMAIN keys |->
        CountryRow("country_code_iso2", keys[i][1], keys[i][2], value_key,
                   SumColumn(group(keys[i]), value_key, Len(group(keys[i]))))]

process_outages_data(data) ==
  IF NotData(data) \/ "annotations" \notin DOMAIN data.body THEN Returned(EmptyFrame)
  ELSE LET annotations == data.body["annotations"]
           processed == OutageRows(annotations, Len(annotations))
       IN IF processed = <<>> THEN Raised("KeyError")
          ELSE Returned([cols |-> {"country_code_iso2", "country_name", "outages"},
                         rows |-> GroupByCodeAndName(processed, "outages")])

----------------------------------------------------------------------------
(* Payloads the upstream API can return *)

MaxEvents == 2
MaxValue == 2

\* a key the record does not carry
Absent == "<absent>"

\* an optional number: <<>> when the key is absent
ValueOptions == {<<>>} \cup {<<v>> : v \in 1..MaxValue}

\* the dict of the text fields that are not Absent, with "value" when given
Event(fields, value) ==
  LET keys == {k \in DOMAIN fields : fields[k] # Absent}
                \cup (IF value = <<>> THEN {} ELSE {"value"})
  IN [k \in keys |-> IF k = "value" THEN value[1] ELSE fields[k]]

SeqsUpTo(S, n) == UNION {[1..m -> S] : m \in 0..n}

\* (code, name) of a location record
LocationPairs ==
  { <<Absent, Absent>>, <<None, None>>, <<Blank, Blank>>, <<"US", "United States">>,
    <<Absent, "NAMIBIA">>, <<None, "Kenya">>, <<None, "Atlantis">> }

LocationItems ==
  { Event([clientCountryAlpha2 |-> p[1], clientCountryName |-> p[2]], v) :
      p \in LocationPairs, v \in ValueOptions }

\* (code, name) of the origin and of the target of an attack event
OriginPairs ==
  { <<Absent, Absent>>, <<"US", "United States">>, <<Absent, "NAMIBIA">>, <<None, "Kenya">> }

TargetPairs == { <<Absent, Absent>>, <<"FR", "France">>, <<Absent, "Namibia">> }

AttackItems ==
  { Event([originCountryAlpha2 |-> o[1], originCountryName |-> o[2],
           targetCountryAlpha2 |-> t[1], targetCountryName |-> t[2]], v) :
      o \in OriginPairs, t \in TargetPairs, v \in ValueOptions }

Annotations ==
  { [locations |-> <<"KE">>, locationsDetails |-> <<[code |-> "KE", name |-> "Kenya"]>>],
    [locations |-> <<"KE">>, locationsDetails |-> <<[code |-> "KE", name |-> "Kenia"]>>],
    [locations |-> <<"US", "KE">>,
     locationsDetails |-> <<[code |-> "US", name |-> "United States"]>>],
    [locations |-> <<Blank>>, locationsDetails |-> <<>>],
    [locations |-> <<>>, locationsDetails |-> <<>>],
    [eventType |-> "OUTAGE"] }

NoPayload == [shape |-> "none", given |-> FALSE, body |-> <<>>]
Payload(shape, body) == [shape |-> shape, given |-> TRUE, body |-> body]

\* what fetch_api_data returns that carries no list: None, {} and an error envelope
EmptyPayloads == {NoPayload, Payload("none", <<>>), Payload("none", [errors |-> <<>>])}

----------------------------------------------------------------------------
(* One normalizer call on one payload *)

NoResult == [fn |-> "none", ret |-> [kind |-> "none"]]

\* the network_data_etl package is not running
PackageIdle ==
  /\ configs = <<>>
  /\ tasks = <<>>
  /\ raw_results = <<>>
  /\ pos = 0
  /\ saved = <<>>
NoFiles == <<>>

NormInit ==
  /\ PackageIdle
  /\ pc = "payload"
  /\ result = NoResult
  /\ files = NoFiles
  /\ outcome = "none"
  /\ run = 1
  /\ start = NoFiles
  /\ log = <<>>
  /\ \/ payload \in EmptyPayloads
     \/ \E m \in 0..MaxEvents :
          \/ \E items \in [1..m -> LocationItems] :
               payload \in {Payload("locations", [main |-> items]),
                            Payload("locations", [top_0 |-> items])}
          \/ \E items \in [1..m -> AttackItems] :
               payload = Payload("attacks", [top_0 |-> items])
          \/ \E items \in [1..m -> Annotations] :
               payload = Payload("outages", [annotations |-> items])

Normalized(fn, ret) ==
  /\ pc = "payload"
  /\ pc' = "normalized"
  /\ result' = [fn |-> fn, ret |-> ret]
  /\ UNCHANGED <<payload, files, outcome, run, start, log>>
  /\ UNCHANGED packageVars

\* extract_http_requests ... extract_device_type_data (name_key "main") and
\* extract_bot_class_data (name_key "top_0")
TopLocations ==
  /\ payload.shape \in {"locations", "none"}
  /\ \E name_key \in {"main", "top_0"} :
       Normalized("process_top_locations_data",
                  process_top_locations_data(payload, "http_requests_total", name_key))

Quality ==
  /\ payload.shape \in {"locations", "none"}
  /\ Normalized("process_quality_data", process_quality_data(payload))

Layer3Attacks ==
  /\ payload.shape \in AttackShapes \cup {"none"}
  /\ Normalized("process_layer3_attacks_data",
                process_layer3_attacks_data(payload, "layer3_attacks", "top_0"))

Layer7Attacks ==
  /\ payload.shape \in AttackShapes \cup {"none"}
  /\ Normalized("process_layer7_attacks_data",
                process_layer7_attacks_data(payload, "layer7_top_attacks", "top_0"))

Outages ==
  /\ payload.shape \in {"outages", "none"}
  /\ Normalized("process_outages_data", process_outages_data(payload))

ScaffoldTopLocations ==
  /\ payload.shape \in {"locations", "none"}
  /\ Normalized("process_top_locations", process_top_locations(payload, "http_requests_total"))

NormNext ==
  \/ TopLocations
  \/ Quality
  \/ Layer3Attacks
  \/ Layer7Attacks
  \/ Outages
  \/ ScaffoldTopLocations

NormSpec == NormInit /\ [][NormNext]_vars

----------------------------------------------------------------------------
(* Table storage: CSV files in WAREHOUSE_DIR *)

MASTER_WAREHOUSE_FILE == "cloudflare_master_warehouse"
MASTER_WAREHOUSE_ISO3_FILE == "cloudflare_master_warehouse_iso3"
AFRICAN_COUNTRIES_FILE == "cloudflare_african_countries"

DerivedFiles == {MASTER_WAREHOUSE_FILE, MASTER_WAREHOUSE_ISO3_FILE, AFRICAN_COUNTRIES_FILE}

\* the columns that hold text; every other column holds numbers
TextCols ==
  { "country_code_iso2", "country_code_iso3", "country_name", "timestamp", "country_code",
    "target_country_code_iso2", "target_country_name", "country_name_x", "country_name_y" }

\* the missing value of a column
NullOf(col) == IF col \in TextCols THEN None ELSE NaN

\* the strings pd.read_csv takes for a missing value (its default na_values)
NaStrings ==
  { "", "#N/A", "#N/A N/A", "#NA", "-1.#IND", "-1.#QNAN", "-NaN", "-nan", "1.#IND",
    "1.#QNAN", "<NA>", "N/A", "NA", "NULL", "NaN", "None", "n/a", "nan", "null" }

\* DataFrame.to_csv writes a missing value as the empty string
WriteCell(col, v) == IF col \in TextCols /\ v = None THEN Blank ELSE v

\* pd.read_csv parses a cell
ReadCell(col, t) == IF col \in TextCols /\ t \in NaStrings THEN None ELSE t

NoFile == [kind |-> "absent"]
Unreadable == [kind |-> "unreadable"]

\* df.to_csv(filepath, index=False)
ToCsv(df) ==
  [kind |-> "csv", cols |-> df.cols,
   rows |-> [i \in DOMAIN df.rows |->
               [c \in df.cols |-> WriteCell(c, df.rows[i][c])]]]

\* pd.read_csv(filepath): a DataFrame, or the exception it raises
ReadCsv(file) ==
  IF file.kind = "absent" THEN Raised("FileNotFoundError")
  ELSE IF file.kind = "unreadable" THEN Raised("ParserError")
  ELSE IF file.cols = {} THEN Raised("EmptyDataError")
  ELSE Returned([cols |-> file.cols,
                 rows |-> [i \in DOMAIN file.rows |->
                             [c \in file.cols |-> ReadCell(c, file.rows[i][c])]]])

\* save_to_csv(df, filename)
save_to_csv(fs, df, filename) == [fs EXCEPT ![filename] = ToCsv(df)]

\* the column as read_csv types it: float64/int64 when every cell is a number or missing
IsNumericCell(col, v) == col \notin TextCols \/ v \in {None, "0.0"}
IsNumericCol(df, col) == \A i \in DOMAIN df.rows : IsNumericCell(col, df.rows[i][col])

----------------------------------------------------------------------------
(* DataFrame operations *)

\* df[cols]
Project(df, cols) ==
  [cols |-> cols, rows |-> [i \in DOMAIN df.rows |-> [c \in cols |-> df.rows[i][c]]]]

\* df.rename(columns={old: new}) for the columns of `mapping` that df has
Rename(df, mapping) ==
  LET new(c) == IF c \in DOMAIN mapping THEN mapping[c] ELSE c
      old(n) == CHOOSE c \in df.cols : new(c) = n
      cols == {new(c) : c \in df.cols}
  IN [cols |-> cols, rows |-> [i \in DOMAIN df.rows |-> [n \in cols |-> df.rows[i][old(n)]]]]

\* df.drop_duplicates(): the first of every run of equal rows
DropDuplicates(df) ==
  LET first(i) == \A j \in 1..(i - 1) : df.rows[j] # df.rows[i]
      keep == {i \in DOMAIN df.rows : first(i)}
      RECURSIVE pick(_)
      pick(n) == IF n = 0 THEN <<>>
                 ELSE IF n \in keep THEN Append(pick(n - 1), df.rows[n]) ELSE pick(n - 1)
  IN [cols |-> df.cols, rows |-> pick(Len(df.rows))]

RECURSIVE SortedCodes(_)
SortedCodes(codes) ==
  IF codes = {} THEN <<>>
  ELSE LET k == CHOOSE k \in codes : \A o \in codes : Rank(k) <= Rank(o)
       IN <<k>> \o SortedCodes(codes \ {k})

RECURSIVE Concat(_, _)
Concat(blocks, n) == IF n = 0 THEN <<>> ELSE Concat(blocks, n - 1) \o blocks[n]

\* left.merge(right, how="outer") on country_code_iso2, the index of left and a column
\* of right; the two frames share no other column.  Missing keys match each other,
\* keys come out sorted with the missing key last.
OuterMerge(left, right) ==
  LET key == "country_code_iso2"
      cols == left.cols \cup right.cols
      keys == SortedCodes({left.rows[i][key] : i \in DOMAIN left.rows}
                            \cup {right.rows[i][key] : i \in DOMAIN right.rows})
      lrows(k) == SelectSeq(left.rows, LAMBDA r : r[key] = k)
      rrows(k) == SelectSeq(right.rows, LAMBDA r : r[key] = k)
      both(l, r) == [c \in cols |-> IF c \in left.cols THEN l[c] ELSE r[c]]
      left_only(l) == [c \in cols |-> IF c \in left.cols THEN l[c] ELSE NullOf(c)]
      right_only(r) == [c \in cols |-> IF c \in right.cols THEN r[c] ELSE NullOf(c)]
      block(k) ==
        LET ls == lrows(k)
            rs == rrows(k)
        IN IF rs = <<>> THEN [i \in DOMAIN ls |-> left_only(ls[i])]
           ELSE IF ls = <<>> THEN [i \in DOMAIN rs |-> right_only(rs[i])]
           ELSE [i \in 1..(Len(ls) * Len(rs)) |->
                   both(ls[((i - 1) \div Len(rs)) + 1], rs[((i - 1) % Len(rs)) + 1])]
  IN [cols |-> cols, rows |-> Concat([j \in DOMAIN keys |-> block(keys[j])], Len(keys))]

\* pandas refuses to merge a key of dtype object with a key of dtype float64
KeyDtypesClash(left, right) ==
  IsNumericCol(left, "country_code_iso2") # IsNumericCol(right, "country_code_iso2")

\* df[col] = value
WithColumn(df, col, value) ==
  [cols |-> df.cols \cup {col},
   rows |-> [i \in DOMAIN df.rows |->
               [c \in df.cols \cup {col} |-> IF c = col THEN value ELSE df.rows[i][c]]]]

\* df.loc[mask, col] = value; mask is the boolean Series, one entry per row
SetWhere(df, mask, col, value) ==
  [cols |-> df.cols,
   rows |-> [i \in DOMAIN df.rows |->
               IF mask[i] THEN [df.rows[i] EXCEPT ![col] = value] ELSE df.rows[i]]]

\* df[mask]
Filter(df, mask) ==
  LET RECURSIVE pick(_)
      pick(n) == IF n = 0 THEN <<>>
                 ELSE IF mask[n] THEN Append(pick(n - 1), df.rows[n]) ELSE pick(n - 1)
  IN [cols |-> df.cols, rows |-> pick(Len(df.rows))]

----------------------------------------------------------------------------
(* The warehouse merger *)

\* every file of the directory, the derived ones included
DatasetFiles_All(fs) == {f \in DOMAIN fs : fs[f].kind # "absent"}

\* os.listdir(WAREHOUSE_DIR) without the three derived files: the dataset files
DatasetFiles(fs) == {f \in DOMAIN fs : f \notin DerivedFiles /\ fs[f].kind # "absent"}

\* lines 539-548: drop the raw attack column when its summed column exists
DropSuperseded(dataset_name, df) ==
  LET drop(sum_col, raw_col) ==
        IF sum_col \in df.cols THEN Project(df, df.cols \ {raw_col}) ELSE df
  IN CASE dataset_name = "layer7_target_attacks_from_top" ->
            drop("layer7_target_attack_sum", "layer7_top_target_attacks")
       [] dataset_name = "layer7_origin_attacks_from_top" ->
            drop("layer7_origin_attack_sum", "layer7_top_origin_attacks")
       [] dataset_name = "layer3_top_origin_attacks" ->
            drop("layer3_origin_attacks_sum", "layer3_attacks")
       [] OTHER -> df

\* lines 531-558: all_dfs, in the order of the directory listing; a file that is
\* empty or cannot be read is skipped
LoadAll(fs, listing) ==
  LET read == [i \in DOMAIN listing |->
                 [name |-> listing[i], ret |-> ReadCsv(fs[listing[i]])]]
      loaded == SelectSeq(read, LAMBDA e : e.ret.kind = "frame" /\ e.ret.df.rows # <<>>)
  IN [i \in DOMAIN loaded |->
        [name |-> loaded[i].name, df |-> DropSuperseded(loaded[i].name, loaded[i].ret.df)]]

LegacyColumns ==
  [target_country_code_iso2 |-> "country_code_iso2", target_country_name |-> "country_name"]

SuffixX == [country_name |-> "country_name_x"]
SuffixY == [country_name |-> "country_name_y"]

\* lines 568-587: one pass of the merge loop
MergeOne(master_df, dataset_name, loaded) ==
  LET df == IF "country_code_iso2" \notin loaded.cols
               /\ "target_country_code_iso2" \in loaded.cols
            THEN Rename(loaded, LegacyColumns) ELSE loaded
      metric_cols == df.cols \ {"country_code_iso2", "country_name"}
  IN IF metric_cols # {}
     THEN IF "country_code_iso2" \notin df.cols THEN Raised("KeyError")
          ELSE IF KeyDtypesClash(master_df, df) THEN Raised("ValueError")
          ELSE Returned(OuterMerge(master_df,
                                   Project(df, {"country_code_iso2"} \cup metric_cols)))
     ELSE IF dataset_name = "internet_quality"
     THEN IF "country_code_iso2" \notin df.cols THEN Raised("KeyError")
          ELSE IF KeyDtypesClash(master_df, df) THEN Raised("ValueError")
          ELSE IF "country_name" \in df.cols /\ "country_name" \in master_df.cols
          THEN Returned(OuterMerge(Rename(master_df, SuffixX), Rename(df, SuffixY)))
          ELSE Returned(OuterMerge(master_df, df))
     ELSE Returned(master_df)

RECURSIVE MergeLoop(_, _, _)
MergeLoop(master_df, all_dfs, n) ==
  IF n = 0 THEN Returned(master_df)
  ELSE LET before == MergeLoop(master_df, all_dfs, n - 1)
       IN IF before.kind = "raise" THEN before
          ELSE MergeOne(before.df, all_dfs[n].name, all_dfs[n].df)

\* the ingestion timestamp of the run
Now == "2025-01-01T00:00:00"

IsNamibia(row) == row["country_name"] # None /\ Lower(row["country_name"]) = "namibia"

\* lines 589-600: timestamp, Namibia enforcement, column order, save
FinishMaster(fs, merged) ==
  LET master_df == WithColumn(merged, "timestamp", Now)
  IN IF "country_name" \notin master_df.cols THEN [outcome |-> "KeyError", files |-> fs]
     ELSE IF IsNumericCol(master_df, "country_name")
     THEN [outcome |-> "AttributeError", files |-> fs]
     ELSE LET mask == [i \in DOMAIN master_df.rows |-> IsNamibia(master_df.rows[i])]
          IN [outcome |-> "written",
              files |-> save_to_csv(fs, SetWhere(master_df, mask, "country_code_iso2", "NA"),
                                    MASTER_WAREHOUSE_FILE)]

\* the whole of update_master_warehouse: how it ended and the storage it leaves
update_master_warehouse(fs, listing) ==
  LET all_dfs == LoadAll(fs, listing)
  IN IF all_dfs = <<>> THEN [outcome |-> "no datasets", files |-> fs]
     ELSE LET base_key ==
                IF \E i \in DOMAIN all_dfs : all_dfs[i].name = "http_requests_total"
                THEN CHOOSE i \in DOMAIN all_dfs : all_dfs[i].name = "http_requests_total"
                ELSE 1
              base == all_dfs[base_key].df
          IN IF ~({"country_code_iso2", "country_name"} \subseteq base.cols)
             THEN [outcome |-> "KeyError", files |-> fs]
             ELSE LET master_df ==
                        DropDuplicates(Project(base, {"country_code_iso2", "country_name"}))
                      merged == MergeLoop(master_df, all_dfs, Len(all_dfs))
                  IN IF merged.kind = "raise"
                     THEN [outcome |-> merged.exc, files |-> fs]
                     ELSE FinishMaster(fs, merged.df)

----------------------------------------------------------------------------
(* The code-system projector *)

\* a projector that looks at the canonical code only
get_iso3_CodeOnly(row) ==
  LET iso2 == row["country_code_iso2"]
  IN IF iso2 = None \/ iso2 = "Unknown" THEN "Unknown"
     ELSE IF Alpha3Of(iso2) # None THEN Alpha3Of(iso2) ELSE "Unknown"

\* lines 614-636: the alternate code of one row of the master table
get_iso3(row) ==
  LET iso2 == row["country_code_iso2"]
      country_name == Get(row, "country_name")
      by_code == IF iso2 = None \/ iso2 = "Unknown" THEN "Unknown"
                 ELSE IF Alpha3Of(iso2) # None THEN Alpha3Of(iso2) ELSE "Unknown"
  IN IF country_name = None THEN by_code
     ELSE IF Lower(country_name) = "namibia" THEN "NAM"
     ELSE by_code

IsNAM(row) == row["country_code_iso3"] = "NAM"

\* the whole of convert_to_iso3: the storage it leaves (any exception is logged)
convert_to_iso3(fs) ==
  LET read == ReadCsv(fs[MASTER_WAREHOUSE_FILE])
  IN IF read.kind = "raise" THEN fs
     ELSE IF "country_code_iso2" \notin read.df.cols THEN fs
     ELSE IF ~({"country_name", "timestamp"} \subseteq read.df.cols) THEN fs
     ELSE LET df == read.df
              with_iso3 ==
                [cols |-> df.cols \cup {"country_code_iso3"},
                 rows |-> [i \in DOMAIN df.rows |->
                             [c \in df.cols \cup {"country_code_iso3"} |->
                                IF c = "country_code_iso3" THEN get_iso3(df.rows[i])
                                ELSE df.rows[i][c]]]]
              mask == [i \in DOMAIN with_iso3.rows |-> IsNAM(with_iso3.rows[i])]
          IN save_to_csv(fs, SetWhere(with_iso3, mask, "country_code_iso2", "NA"),
                         MASTER_WAREHOUSE_ISO3_FILE)

----------------------------------------------------------------------------
(* The region filter and the repair passes *)

\* a region filter that keeps every row
IsAfrican_KeepAll(row) == TRUE

\* line 679: the isin test of the region filter
IsAfrican(row) == row["country_code_iso3"] \in AFRICAN_COUNTRIES_ISO3

\* the whole of extract_african_countries
extract_african_countries(fs) ==
  LET read == ReadCsv(fs[MASTER_WAREHOUSE_ISO3_FILE])
  IN IF read.kind = "raise" THEN fs
     ELSE IF "country_code_iso3" \notin read.df.cols THEN fs
     ELSE LET df == read.df
              african_df == Filter(df, [i \in DOMAIN df.rows |-> IsAfrican(df.rows[i])])
              mask == [i \in DOMAIN african_df.rows |-> IsNAM(african_df.rows[i])]
          IN IF african_df.rows = <<>> THEN fs
             ELSE save_to_csv(fs, SetWhere(african_df, mask, "country_code_iso2", "NA"),
                              AFRICAN_COUNTRIES_FILE)

\* lines 702-714
get_country_name(iso3) ==
  IF iso3 = None \/ iso3 = "Unknown" THEN "Unknown"
  ELSE IF NameOfAlpha3(iso3) # None THEN NameOfAlpha3(iso3) ELSE "Unknown"

\* the whole of african_country_name_updater
african_country_name_updater(fs) ==
  LET read == ReadCsv(fs[AFRICAN_COUNTRIES_FILE])
  IN IF read.kind = "raise" THEN fs
     ELSE IF "country_code_iso3" \notin read.df.cols THEN fs
     ELSE LET df == read.df
              cols == df.cols \cup {"country_name"}
                        \cup (IF \E i \in DOMAIN df.rows : IsNAM(df.rows[i])
                              THEN {"country_code_iso2"} ELSE {})
              updated ==
                [cols |-> cols,
                 rows |-> [i \in DOMAIN df.rows |->
                             [c \in cols |->
                                IF c = "country_name"
                                THEN IF IsNAM(df.rows[i]) THEN "Namibia"
                                     ELSE get_country_name(df.rows[i]["country_code_iso3"])
                                ELSE IF c = "country_code_iso2" /\ IsNAM(df.rows[i]) THEN "NA"
                                ELSE IF c \in df.cols THEN df.rows[i][c]
                                ELSE NullOf(c)]]]
          IN save_to_csv(fs, updated, AFRICAN_COUNTRIES_FILE)

\* a fill that leaves the cell as it is
FillCell_Keep(col, v) == v

\* fillna(0) on one cell of a numeric column; a float column writes 0 as "0.0"
FillCell(col, v) ==
  IF col \in TextCols THEN (IF v = None THEN "0.0" ELSE v)
  ELSE IF v = NaN THEN 0 ELSE v

\* the whole of african_country_nan_filler
african_country_nan_filler(fs) ==
  LET read == ReadCsv(fs[AFRICAN_COUNTRIES_FILE])
  IN IF read.kind = "raise" THEN fs
     ELSE IF read.df.rows = <<>> THEN fs
     ELSE LET df == read.df
              numeric_cols == {c \in df.cols : IsNumericCol(df, c)}
              filled ==
                [cols |-> df.cols,
                 rows |-> [i \in DOMAIN df.rows |->
                             [c \in df.cols |->
                                IF c \in numeric_cols THEN FillCell(c, df.rows[i][c])
                                ELSE df.rows[i][c]]]]
          IN save_to_csv(fs, filled, AFRICAN_COUNTRIES_FILE)

----------------------------------------------------------------------------
(* One run of the pipeline (the __main__ block) over a warehouse directory *)

MaxRecords == 2

FileNames ==
  {"http_requests_total", "layer3_target_attacks", "layer3_top_origin_attacks", "outages",
   "legacy_attacks", "internet_quality"}
    \cup DerivedFiles

\* an order of calls in which the merge does not wait for the outage dataset
MainOrder_MergeBeforeOutages ==
  << "extract_http_requests", "extract_layer3_target_locations",
     "sum_layer3_top_origin_attacks", "update_master_warehouse", "extract_outages",
     "convert_to_iso3", "extract_african_countries", "african_country_name_updater",
     "african_country_nan_filler" >>

\* the calls of the __main__ block, in the order the script makes them
MainOrder ==
  << "extract_http_requests", "extract_layer3_target_locations",
     "sum_layer3_top_origin_attacks", "extract_outages", "update_master_warehouse",
     "convert_to_iso3", "extract_african_countries", "african_country_name_updater",
     "african_country_nan_filler" >>

\* the call that follows a call of __main__; "done" after the last one
Following(step) ==
  LET i == CHOOSE k \in DOMAIN MainOrder : MainOrder[k] = step
  IN IF i = Len(MainOrder) THEN "done" ELSE MainOrder[i + 1]

\* a completed call: fetch tells how its fetch_api_data ended, "none" when it has none
Completed(step, fetch) == [step |-> step, fetch |-> fetch]

\* what the upstream API can answer for http/top/locations
HttpItems ==
  { Event([clientCountryAlpha2 |-> "US", clientCountryName |-> Absent], <<1>>),
    Event([clientCountryAlpha2 |-> "KE", clientCountryName |-> "Kenya"], <<2>>),
    Event([clientCountryAlpha2 |-> "KE", clientCountryName |-> "Kenia"], <<3>>),
    Event([clientCountryAlpha2 |-> "NA", clientCountryName |-> "NAMIBIA"], <<4>>) }

\* fetch_api_data("http/top/locations"): None on failure, else the result
HttpFetches ==
  {NoPayload} \cup
  {Payload("locations", [main |-> items]) : items \in SeqsUpTo(HttpItems, MaxRecords)}

\* what the upstream API can answer for attacks/layer3/top/locations/target
TargetItems ==
  { Event([targetCountryAlpha2 |-> "KE", targetCountryName |-> "Kenya"], <<1>>),
    Event([targetCountryAlpha2 |-> "FR", targetCountryName |-> "France"], <<2>>),
    Event([targetCountryAlpha2 |-> "NA", targetCountryName |-> "Namibia"], <<3>>) }

TargetFetches ==
  {NoPayload} \cup
  {Payload("attacks", [top_0 |-> items]) : items \in SeqsUpTo(TargetItems, MaxRecords)}

\* fetch_api_data("annotations/outages/"): None on failure, or a result without outages
OutageFetches == {NoPayload, Payload("outages", [annotations |-> <<>>])}

Csv(cols, rows) == [kind |-> "csv", cols |-> cols, rows |-> rows]

\* a file earlier versions of the pipeline, or other tools, left in the directory
Leftovers ==
  { [name |-> "legacy_attacks", file |-> NoFile],
    [name |-> "legacy_attacks", file |-> Unreadable],
    [name |-> "legacy_attacks", file |-> Csv({}, <<>>)],
    [name |-> "legacy_attacks",
     file |-> Csv({"target_country_code_iso2", "target_country_name", "legacy_attacks"},
                  << [target_country_code_iso2 |-> "FR", target_country_name |-> "France",
                      legacy_attacks |-> 5] >>)],
    [name |-> "legacy_attacks",
     file |-> Csv({"legacy_attacks"}, << [legacy_attacks |-> 6] >>)],
    [name |-> "legacy_attacks",
     file |-> Csv({"country_code_iso2", "country_name"},
                  << [country_code_iso2 |-> "FR", country_name |-> "France"] >>)],
    [name |-> "internet_quality",
     file |-> Csv({"country_code_iso2", "country_name"},
                  << [country_code_iso2 |-> "FR", country_name |-> "France"] >>)],
    [name |-> "internet_quality",
     file |-> Csv({"country_code_iso2"}, << [country_code_iso2 |-> "FR"] >>)],
    [name |-> "layer3_top_origin_attacks",
     file |-> Csv({"country_code_iso2", "country_name", "layer3_attacks"},
                  << [country_code_iso2 |-> "US", country_name |-> "United States",
                      layer3_attacks |-> 2] >>)],
    [name |-> "layer3_top_origin_attacks",
     file |-> Csv({"country_code_iso2", "country_name", "layer3_attacks"},
                  << [country_code_iso2 |-> "KE", country_name |-> "Kenya",
                      layer3_attacks |-> NaN] >>)] }

Init ==
  /\ PackageIdle
  /\ pc = MainOrder[1]
  /\ payload = NoPayload
  /\ result = NoResult
  /\ outcome = "none"
  /\ run = 1
  /\ log = <<>>
  /\ \E left \in Leftovers :
       files = [f \in FileNames |-> IF f = left.name THEN left.file ELSE NoFile]
  /\ start = files

\* an extract_* function: fetch, and when data came back, normalize and save;
\* an exception of the normalizer leaves the function and ends the script
Extract(here, data, ret, filename) ==
  /\ pc = here
  /\ IF NotData(data)
     THEN /\ pc' = Following(here)
          /\ files' = files
          /\ log' = Append(log, Completed(here, IF data.given THEN "ok" ELSE "failed"))
     ELSE IF ret.kind = "raise"
     THEN pc' = "crashed" /\ files' = files /\ log' = log
     ELSE /\ pc' = Following(here)
          /\ files' = save_to_csv(files, ret.df, filename)
          /\ log' = Append(log, Completed(here, "ok"))
  /\ UNCHANGED <<payload, result, outcome, run, start>>
  /\ UNCHANGED packageVars

ExtractHttpRequestsOf(fetches) ==
  /\ pc = "extract_http_requests"
  /\ \E data \in fetches :
       Extract("extract_http_requests", data,
               process_top_locations_data(data, "http_requests_total", "main"),
               "http_requests_total")

ExtractHttpRequests == ExtractHttpRequestsOf(HttpFetches)

ExtractLayer3TargetLocationsOf(fetches) ==
  /\ pc = "extract_layer3_target_locations"
  /\ \E data \in fetches :
       Extract("extract_layer3_target_locations", data,
               process_layer3_attacks_data(data, "layer3_target_attacks", "top_0"),
               "layer3_target_attacks")

ExtractLayer3TargetLocations == ExtractLayer3TargetLocationsOf(TargetFetches)

ExtractOutages ==
  /\ pc = "extract_outages"
  /\ \E data \in OutageFetches :
       Extract("extract_outages", data, process_outages_data(data), "outages")

\* lines 808-830: add the summed column to the saved table; sum_attacks takes the
\* cell for a string, so a cell holding a number raises TypeError, which the
\* function logs and swallows, as it does a file that cannot be read
sum_layer3_top_origin_attacks(fs) ==
  LET ret == ReadCsv(fs["layer3_top_origin_attacks"])
  IN IF ret.kind = "raise" THEN fs
     ELSE IF "layer3_attacks" \notin ret.df.cols THEN fs
     ELSE IF \E i \in DOMAIN ret.df.rows : ret.df.rows[i]["layer3_attacks"] # NaN THEN fs
     ELSE save_to_csv(fs, WithColumn(ret.df, "layer3_origin_attacks_sum", 0),
                      "layer3_top_origin_attacks")

\* the orders in which os.listdir can list the files
Listings(names) ==
  {s \in [1..Cardinality(names) -> names] : \A i, j \in DOMAIN s : s[i] = s[j] => i = j}

UpdateMasterWarehouse ==
  /\ pc = "update_master_warehouse"
  /\ \E listing \in Listings(DatasetFiles(files)) :
       LET end == update_master_warehouse(files, listing)
       IN /\ outcome' = end.outcome
          /\ files' = end.files
          /\ IF end.outcome \in {"written", "no datasets"}
             THEN /\ pc' = Following("update_master_warehouse")
                  /\ log' = Append(log, Completed("update_master_warehouse", "none"))
             ELSE pc' = "crashed" /\ log' = log
  /\ UNCHANGED <<payload, result, run, start>>
  /\ UNCHANGED packageVars

\* a call of __main__ that fetches nothing and lets no exception out
Stage(here, after) ==
  /\ pc = here
  /\ files' = after
  /\ pc' = Following(here)
  /\ log' = Append(log, Completed(here, "none"))
  /\ UNCHANGED <<payload, result, outcome, run, start>>
  /\ UNCHANGED packageVars

SumLayer3TopOriginAttacks ==
  Stage("sum_layer3_top_origin_attacks", sum_layer3_top_origin_attacks(files))

ConvertToIso3 == Stage("convert_to_iso3", convert_to_iso3(files))

ExtractAfricanCountries ==
  Stage("extract_african_countries", extract_african_countries(files))

AfricanCountryNameUpdater ==
  Stage("african_country_name_updater", african_country_name_updater(files))

AfricanCountryNanFiller ==
  Stage("african_country_nan_filler", african_country_nan_filler(files))

Next ==
  \/ ExtractHttpRequests
  \/ ExtractLayer3TargetLocations
  \/ SumLayer3TopOriginAttacks
  \/ ExtractOutages
  \/ UpdateMasterWarehouse
  \/ ConvertToIso3
  \/ ExtractAfricanCountries
  \/ AfricanCountryNameUpdater
  \/ AfricanCountryNanFiller

Spec == Init /\ [][Next]_vars

----------------------------------------------------------------------------
(* Vocabulary of the properties *)

\* the rows a file holds
FileRows(file) == IF file.kind = "csv" THEN file.rows ELSE <<>>
FileCols(file) == IF file.kind = "csv" THEN file.cols ELSE {}

MasterRows == FileRows(files[MASTER_WAREHOUSE_FILE])
ProjectedRows == FileRows(files[MASTER_WAREHOUSE_ISO3_FILE])
RegionalRows == FileRows(files[AFRICAN_COUNTRIES_FILE])

\* update_master_warehouse has returned or raised in this run
MergeRan == outcome # "none"

\* the per-dataset tables update_master_warehouse loaded, keyed by the canonical column
LoadedDatasets ==
  LET named == DatasetFiles(files)
      usable == {f \in named : ReadCsv(files[f]).kind = "frame" /\ files[f].rows # <<>>}
      canonical(f) ==
        LET df == DropSuperseded(f, ReadCsv(files[f]).df)
        IN IF "country_code_iso2" \notin df.cols /\ "target_country_code_iso2" \in df.cols
           THEN Rename(df, LegacyColumns) ELSE df
  IN {[name |-> f, df |-> canonical(f)] : f \in usable}

MetricColsOf(df) == df.cols \ {"country_code_iso2", "country_name"}

\* the country codes a loaded table reports
CodesOf(df) ==
  IF "country_code_iso2" \notin df.cols THEN {}
  ELSE {df.rows[i]["country_code_iso2"] : i \in DOMAIN df.rows} \ {None}

MasterKeys == {MasterRows[i]["country_code_iso2"] : i \in DOMAIN MasterRows}

\* the frames a normalizer returned
ResultFrames ==
  IF result.ret.kind = "frame" THEN {result.ret.df}
  ELSE IF result.ret.kind = "split" THEN {result.ret.origin, result.ret.target}
  ELSE {}

CodeColOf(df) == IF "country_code" \in df.cols THEN "country_code" ELSE "country_code_iso2"

----------------------------------------------------------------------------
(* C1 -- C3: the master table *)

\* C1: when update_master_warehouse has written the master table, every country
\* code that a loaded dataset reports is a key of the master table, whether or not
\* that dataset is the base and whether or not it has metric columns.
C1_OuterJoinCompleteness ==
  outcome = "written" =>
    \A d \in LoadedDatasets : CodesOf(d.df) \subseteq MasterKeys

\* C2: the master table update_master_warehouse writes has exactly one row per
\* distinct country code.
C2_OneRowPerCode ==
  outcome = "written" =>
    \A i, j \in DOMAIN MasterRows :
      MasterRows[i]["country_code_iso2"] = MasterRows[j]["country_code_iso2"] => i = j

\* C3: in the master table the row for country code c holds, for every loaded
\* dataset D and metric column m of D, the value D reported for c when D reports c,
\* and a missing value when it does not; and every code a dataset file reports
\* with a metric has such a row.
C3_MetricCarryOver ==
  outcome = "written" =>
    \A d \in LoadedDatasets : \A m \in MetricColsOf(d.df) :
      LET file == files[d.name]
          code_col == IF "country_code_iso2" \in file.cols
                      THEN "country_code_iso2" ELSE "target_country_code_iso2"
          reported(c) == {file.rows[i][m] : i \in {j \in DOMAIN file.rows :
                                                     file.rows[j][code_col] = c}}
          codes == {file.rows[i][code_col] : i \in DOMAIN file.rows}
      IN /\ m \in FileCols(files[MASTER_WAREHOUSE_FILE])
         /\ \A c \in codes : c \in MasterKeys
         /\ \A i \in DOMAIN MasterRows :
              LET c == MasterRows[i]["country_code_iso2"]
              IN IF c \in codes THEN MasterRows[i][m] \in reported(c)
                 ELSE MasterRows[i][m] = NaN

----------------------------------------------------------------------------
(* C4: the attack aggregator *)

OriginFields == {"originCountryAlpha2", "originCountryName"}
TargetFields == {"targetCountryAlpha2", "targetCountryName"}

\* every event of the list describes this role and no event describes the other
SingleRole(items, own, other) ==
  \A i \in DOMAIN items : DOMAIN items[i] \cap own # {} /\ DOMAIN items[i] \cap other = {}

RECURSIVE SumOfValues(_, _)
\* the sum of the value fields of the events at the positions of `chosen`
SumOfValues(items, chosen) ==
  IF chosen = {} THEN 0
  ELSE LET i == CHOOSE i \in chosen : TRUE
       IN GetOr(items[i], "value", 0) + SumOfValues(items, chosen \ {i})

\* df has one row per country code the events resolve to under the role's fields,
\* and the row's metric is the sum of the values of the events with that code
AggregatesByRole(df, items, country_key, name_key_field, value_key) ==
  LET code(item) == AttackCode(item, country_key, name_key_field)
      codes == {code(items[i]) : i \in DOMAIN items}
      rows_of(c) == {i \in DOMAIN df.rows : df.rows[i]["country_code_iso2"] = c}
  IN /\ \A i \in DOMAIN df.rows : df.rows[i]["country_code_iso2"] \in codes
     /\ \A c \in codes :
          /\ Cardinality(rows_of(c)) = 1
          /\ \A i \in rows_of(c) :
               df.rows[i][value_key] =
                 SumOfValues(items, {j \in DOMAIN items : code(items[j]) = c})

AttackNormalizers == {"process_layer3_attacks_data", "process_layer7_attacks_data"}

\* C4: for a non-empty list of attack events of a single role, process_layer3_attacks_data
\* and the single-role branches of process_layer7_attacks_data return exactly one row
\* per distinct resolved country code, whose metric is the sum of the values of the
\* events with that code.
C4_AggregationCorrectness ==
  (/\ pc = "normalized"
   /\ result.fn \in AttackNormalizers
   /\ payload.shape = "attacks"
   /\ result.ret.kind = "frame") =>
    LET items == payload.body["top_0"]
        value_key == IF result.fn = "process_layer3_attacks_data"
                     THEN "layer3_attacks" ELSE "layer7_top_attacks"
    IN items # <<>> =>
         /\ SingleRole(items, OriginFields, TargetFields) =>
              AggregatesByRole(result.ret.df, items, "originCountryAlpha2",
                               "originCountryName", value_key)
         /\ SingleRole(items, TargetFields, OriginFields) =>
              AggregatesByRole(result.ret.df, items, "targetCountryAlpha2",
                               "targetCountryName", value_key)

----------------------------------------------------------------------------
(* C5: Namibia through the projector, the region filter and the repair passes *)

\* the row names Namibia, in any case
NamedNamibia(row) == "country_name" \in DOMAIN row /\ Lower(row["country_name"]) = "namibia"

CarriesNamibiaCodes(row) ==
  row["country_code_iso2"] = "NA" /\ row["country_code_iso3"] = "NAM"

ProjectorRan ==
  pc \in {"extract_african_countries", "african_country_name_updater",
          "african_country_nan_filler", "done"}

\* C5: every row named Namibia carries the codes NA and NAM in the projected
\* warehouse file once convert_to_iso3 has written it, and in the regional warehouse
\* file once the region filter and the two repair passes have each read and
\* rewritten it.
C5_NamibiaInvariant ==
  /\ ProjectorRan =>
       \A i \in DOMAIN ProjectedRows :
         NamedNamibia(ProjectedRows[i]) => CarriesNamibiaCodes(ProjectedRows[i])
  /\ pc = "done" =>
       \A i \in DOMAIN RegionalRows :
         NamedNamibia(RegionalRows[i]) => CarriesNamibiaCodes(RegionalRows[i])

----------------------------------------------------------------------------
(* C6, C7: the rows of a normalized dataset *)

\* the normalizers that emit one row per input record, in order
RowPerRecord == {"process_top_locations_data", "process_quality_data", "process_top_locations"}

\* C6: every row a normalizer emits has a country code that is neither null nor
\* empty, and a location record whose code and name are both absent, null or blank
\* is emitted with the code 'Unknown'.
C6_CountryCodeNonNull ==
  pc = "normalized" =>
    /\ \A df \in ResultFrames : \A i \in DOMAIN df.rows :
         Truthy(df.rows[i][CodeColOf(df)])
    /\ (result.fn \in RowPerRecord /\ result.ret.kind = "frame") =>
         \A name_key \in {"main", "top_0"} :
           (payload.given /\ name_key \in DOMAIN payload.body
              /\ Len(payload.body[name_key]) = Len(result.ret.df.rows)) =>
             \A i \in DOMAIN payload.body[name_key] :
               LET item == payload.body[name_key][i]
                   df == result.ret.df
               IN (~Truthy(Get(item, "clientCountryAlpha2"))
                     /\ ~Truthy(Get(item, "clientCountryName")))
                    => df.rows[i][CodeColOf(df)] = "Unknown"

\* C7: the table a normalizer returns holds at most one row per country code.
C7_KeyUniqueness ==
  pc = "normalized" =>
    \A df \in ResultFrames : \A i, j \in DOMAIN df.rows :
      df.rows[i][CodeColOf(df)] = df.rows[j][CodeColOf(df)] => i = j

----------------------------------------------------------------------------
(* C8, C9: the regional warehouse *)

RegionFilterRan ==
  pc \in {"african_country_name_updater", "african_country_nan_filler", "done"}

Iso3Of(rows) == [i \in DOMAIN rows |-> rows[i]["country_code_iso3"]]

InRegion(iso3) == iso3 \in AFRICAN_COUNTRIES_ISO3

\* C8: once extract_african_countries has run, and through the two repair passes,
\* every row of the regional warehouse file has an alternate code of
\* AFRICAN_COUNTRIES_ISO3, and when the projected warehouse holds rows with a member
\* code, the regional rows are exactly those rows, in order: none with a non-member
\* or 'Unknown' code, every one with a member code.
C8_RegionFilterClosure ==
  RegionFilterRan =>
    /\ \A i \in DOMAIN RegionalRows : InRegion(RegionalRows[i]["country_code_iso3"])
    /\ LET members == SelectSeq(Iso3Of(ProjectedRows), InRegion)
       IN members # <<>> => Iso3Of(RegionalRows) = members

\* a run in which the filter kept a row and dropped another
C8_Witness ==
  /\ pc = "done"
  /\ RegionalRows # <<>>
  /\ \E i \in DOMAIN ProjectedRows : ~InRegion(ProjectedRows[i]["country_code_iso3"])
  /\ \E i \in DOMAIN ProjectedRows : ProjectedRows[i]["country_code_iso3"] = "Unknown"

\* C9: the step african_country_nan_filler takes on a regional warehouse file that
\* holds rows leaves the columns and the rows in place, turns every null cell of a
\* metric column into 0 and leaves every other metric cell unchanged.
C9_ZeroFill ==
  [][ (pc = "african_country_nan_filler" /\ RegionalRows # <<>>) =>
        LET before == files[AFRICAN_COUNTRIES_FILE]
            after == files'[AFRICAN_COUNTRIES_FILE]
        IN /\ after.kind = "csv"
           /\ after.cols = before.cols
           /\ DOMAIN after.rows = DOMAIN before.rows
           /\ \A i \in DOMAIN before.rows : \A c \in before.cols \ TextCols :
                /\ after.rows[i][c] # NaN
                /\ after.rows[i][c] = IF before.rows[i][c] = NaN THEN 0
                                      ELSE before.rows[i][c] ]_vars

\* a finished run whose regional warehouse holds a filled cell and an untouched one
C9_Witness ==
  /\ pc = "done"
  /\ LET members == SelectSeq(ProjectedRows, LAMBDA r : InRegion(r["country_code_iso3"]))
     IN /\ Len(members) = Len(RegionalRows)
        /\ \E i \in DOMAIN RegionalRows : \E c \in FileCols(files[AFRICAN_COUNTRIES_FILE]) \ TextCols :
             members[i][c] = NaN /\ RegionalRows[i][c] = 0
        /\ \E i \in DOMAIN RegionalRows : \E c \in FileCols(files[AFRICAN_COUNTRIES_FILE]) \ TextCols :
             members[i][c] > 0 /\ RegionalRows[i][c] = members[i][c]

----------------------------------------------------------------------------
(* C10: datasets the merger cannot use *)

\* the file is empty, cannot be read, or lacks the key column
Unusable(file) ==
  \/ file.kind = "unreadable"
  \/ file.kind = "csv" /\ (file.rows = <<>> \/ "country_code_iso2" \notin file.cols)

UnusableFiles == {f \in DatasetFiles(files) : Unusable(files[f])}

\* the directory before the merge, without the files of `dropped`
DirectoryWithout(dropped) ==
  [f \in DOMAIN files |-> IF f \in dropped \cup DerivedFiles THEN NoFile ELSE files[f]]

\* every column and every row of `part` is in `whole`
Covers(whole, part) ==
  /\ FileCols(part) \subseteq FileCols(whole)
  /\ \A i \in DOMAIN FileRows(part) : \E j \in DOMAIN FileRows(whole) :
       \A c \in FileCols(part) : FileRows(whole)[j][c] = FileRows(part)[i][c]

\* C10: when a dataset file is empty, unreadable or lacks the key column, and the
\* other dataset files merge into a master table on their own, update_master_warehouse
\* ends without an exception and writes a master table that holds every column and
\* every row of the master table of the other files.
C10_MergeFailurePolicy ==
  (MergeRan /\ UnusableFiles # {}) =>
    LET rest == DirectoryWithout(UnusableFiles)
        alone == {update_master_warehouse(rest, l) : l \in Listings(DatasetFiles(rest))}
        written == {a \in alone : a.outcome = "written"}
    IN written # {} =>
         /\ outcome = "written"
         /\ \E a \in written :
              Covers(files[MASTER_WAREHOUSE_FILE], a.files[MASTER_WAREHOUSE_FILE])

----------------------------------------------------------------------------
(* C13, C14: the calls of one run *)

\* the calls of __main__ that fetch a dataset, and those that post-process one
ExtractSteps == {"extract_http_requests", "extract_layer3_target_locations", "extract_outages"}
SumSteps == {"sum_layer3_top_origin_attacks"}

\* the calls this run has completed
StepsDone == {log[i].step : i \in DOMAIN log}

\* C13: a failure while fetching or normalizing a dataset stays inside that dataset's
\* extract step: the script never ends before every extract step has completed, so
\* whenever a run has stopped on an exception, all datasets were extracted first.
C13_FailureContainment == pc = "crashed" => ExtractSteps \subseteq StepsDone

RepairSteps == {"african_country_name_updater", "african_country_nan_filler"}

\* the call has begun: it is the next call, it has completed, or it raised
Started(step) ==
  \/ pc = step
  \/ step \in StepsDone
  \/ step = "update_master_warehouse" /\ MergeRan

\* C14: in every run, update_master_warehouse starts only after every extract step and
\* every sum_* step has completed, convert_to_iso3 only after update_master_warehouse
\* has completed, extract_african_countries only after convert_to_iso3, and the two
\* repair passes only after extract_african_countries.
C14_StageOrdering ==
  /\ Started("update_master_warehouse") => (ExtractSteps \cup SumSteps) \subseteq StepsDone
  /\ Started("convert_to_iso3") => "update_master_warehouse" \in StepsDone
  /\ Started("extract_african_countries") => "convert_to_iso3" \in StepsDone
  /\ \A repair \in RepairSteps :
       Started(repair) => "extract_african_countries" \in StepsDone

\* a run that went through every call of __main__ and wrote a master table
C14_Witness ==
  /\ pc = "done"
  /\ outcome = "written"
  /\ \A k \in DOMAIN MainOrder : MainOrder[k] \in StepsDone

----------------------------------------------------------------------------
(* C15: the two repair passes as functions of the persisted regional warehouse *)

\* a regional warehouse is on disk
RegionalPersisted == files[AFRICAN_COUNTRIES_FILE].kind = "csv"

\* the regional warehouse a sequence of passes leaves on disk
RegionalAfter(fs) == fs[AFRICAN_COUNTRIES_FILE]

\* C15: on every persisted regional warehouse, african_country_name_updater run twice
\* leaves the same table as run once, so does african_country_nan_filler, and the
\* two passes leave the same table (every column, country_code_iso2 included) in
\* either order.
C15_RepairPassesCommute ==
  RegionalPersisted =>
    LET named == african_country_name_updater(files)
        filled == african_country_nan_filler(files)
    IN /\ RegionalAfter(african_country_name_updater(named)) = RegionalAfter(named)
       /\ RegionalAfter(african_country_nan_filler(filled)) = RegionalAfter(filled)
       /\ RegionalAfter(african_country_nan_filler(named))
            = RegionalAfter(african_country_name_updater(filled))

----------------------------------------------------------------------------
(* C16: payloads without records *)

\* the payload is absent, or every list it carries is empty, so that the key a
\* normalizer expects is either missing or holds an empty list
NoRecords == ~payload.given \/ \A k \in DOMAIN payload.body : payload.body[k] = <<>>

\* C16: every normalizer returns an empty table, and raises nothing, when the payload
\* is absent, lacks the expected top-level key, or holds an empty record list under it
\* ({'top_0': []} for the attack normalizers, {'annotations': []} for outages).
C16_EmptyPayloadEmptyTable ==
  (pc = "normalized" /\ NoRecords) =>
    /\ result.ret.kind = "frame"
    /\ result.ret.df.rows = <<>>

----------------------------------------------------------------------------
(* C17: the country resolver *)

\* the four steps of the resolver: the raw code when present and not blank, else NA
\* for Namibia by name, else the code the name lookup finds, else Unknown
Resolver(code, name) ==
  IF Truthy(code) THEN code
  ELSE IF Truthy(name) /\ Lower(name) = "namibia" THEN "NA"
  ELSE IF Truthy(name) /\ SearchFuzzy(name) # None THEN SearchFuzzy(name)
  ELSE "Unknown"

ResolvingNormalizers ==
  {"process_top_locations_data", "process_quality_data"} \cup AttackNormalizers

\* the record list of the payload
RecordList == payload.body[CHOOSE k \in DOMAIN payload.body : TRUE]

\* the role an attack normalizer reads off the first record
RoleOf(items) == IF "targetCountryAlpha2" \in DOMAIN items[1] THEN "target" ELSE "origin"

\* the fields of a record that hold its country code and its country name
CodeField(fn, items) ==
  IF fn \in AttackNormalizers THEN RoleOf(items) \o "CountryAlpha2" ELSE "clientCountryAlpha2"

NameField(fn, items) ==
  IF fn \in AttackNormalizers THEN RoleOf(items) \o "CountryName" ELSE "clientCountryName"

\* C17: the location-list, quality and attack normalizers give every record the code
\* of the same resolver, so the codes of the returned table are exactly the resolved
\* codes of the records; an attack event without a code whose name the lookup service
\* knows gets the looked-up code.
C17_UniformResolution ==
  (/\ pc = "normalized"
   /\ result.fn \in ResolvingNormalizers
   /\ result.ret.kind = "frame"
   /\ result.ret.df.rows # <<>>) =>
    LET df == result.ret.df
        items == RecordList
    IN {df.rows[i][CodeColOf(df)] : i \in DOMAIN df.rows}
         = {Resolver(Get(items[j], CodeField(result.fn, items)),
                     Get(items[j], NameField(result.fn, items))) : j \in DOMAIN items}

----------------------------------------------------------------------------
(* C18: the alternate code of a projected row *)

\* a cell of a persisted table holds no value
Missing(cell) == cell \in {None, Blank}

\* the alternate code the identity service gives a canonical code, Unknown when the
\* code is missing, 'Unknown' or not a code of the service
ServiceCode(code) ==
  IF Missing(code) \/ code = "Unknown" \/ Alpha3Of(code) = None THEN "Unknown"
  ELSE Alpha3Of(code)

\* the precedence of the projector on a persisted master row
Precedence(code, name) ==
  IF Missing(name) /\ (Missing(code) \/ code = "Unknown") THEN "Unknown"
  ELSE IF ~Missing(name) /\ Lower(name) = "namibia" THEN "NAM"
  ELSE ServiceCode(code)

ProjectedPersisted == ProjectorRan /\ files[MASTER_WAREHOUSE_ISO3_FILE].kind = "csv"

\* C18: the projected warehouse convert_to_iso3 wrote has one row per row of the master
\* table, in order, whose alternate code is 'Unknown' if the name is missing and the
\* canonical code is missing or 'Unknown', otherwise 'NAM' (with canonical code 'NA')
\* if the name is 'namibia' in any case, otherwise the identity service's alternate
\* code of the canonical code, or 'Unknown' when there is none.
C18_ProjectorPrecedence ==
  ProjectedPersisted =>
    /\ DOMAIN ProjectedRows = DOMAIN MasterRows
    /\ \A i \in DOMAIN MasterRows :
         LET code == MasterRows[i]["country_code_iso2"]
             name == MasterRows[i]["country_name"]
             iso3 == Precedence(code, name)
         IN /\ ProjectedRows[i]["country_code_iso3"] = iso3
            /\ ProjectedRows[i]["country_code_iso2"] = IF iso3 = "NAM" THEN "NA" ELSE code

\* a projected warehouse with a Namibia row whose code came from the name and a row
\* whose code came from the identity service
C18_Witness ==
  /\ ProjectedPersisted
  /\ \E i, j \in DOMAIN ProjectedRows :
       /\ Lower(MasterRows[i]["country_name"]) = "namibia"
       /\ ProjectedRows[i]["country_code_iso3"] = "NAM"
       /\ MasterRows[j]["country_code_iso2"] = "KE"
       /\ ProjectedRows[j]["country_code_iso3"] = "KEN"

----------------------------------------------------------------------------
(* C20: the role split of the layer-7 normalizer *)

\* the first record carries the country field of the role
FirstHasOrigin == "originCountryAlpha2" \in DOMAIN RecordList[1]
FirstHasTarget == "targetCountryAlpha2" \in DOMAIN RecordList[1]

Layer7Returned ==
  /\ pc = "normalized"
  /\ result.fn = "process_layer7_attacks_data"
  /\ result.ret.kind \in {"frame", "split"}
  /\ payload.given /\ "top_0" \in DOMAIN payload.body /\ payload.body["top_0"] # <<>>

\* C20: process_layer7_attacks_data returns the two tables (origin-keyed and
\* target-keyed) exactly when the first record carries both the origin and the target
\* country field, and a single table when it carries exactly one of them; it never
\* returns the two tables for a first record that carries neither.
C20_Layer7RoleSplit ==
  Layer7Returned =>
    /\ result.ret.kind = "split" <=> (FirstHasOrigin /\ FirstHasTarget)
    /\ (FirstHasOrigin # FirstHasTarget) => result.ret.kind = "frame"

----------------------------------------------------------------------------
(* The script run again and again over the same warehouse directory *)

MaxRuns == 2

\* what the upstream API answers from one run to the next
RunsHttpItems ==
  { Event([clientCountryAlpha2 |-> "US", clientCountryName |-> Absent], <<1>>),
    Event([clientCountryAlpha2 |-> "KE", clientCountryName |-> "Kenia"], <<3>>) }

RunsHttpFetches ==
  {NoPayload, Payload("locations", [main |-> <<>>])} \cup
  {Payload("locations", [main |-> <<item>>]) : item \in RunsHttpItems}

RunsTargetItems ==
  { Event([targetCountryAlpha2 |-> "KE", targetCountryName |-> "Kenya"], <<1>>),
    Event([targetCountryAlpha2 |-> "FR", targetCountryName |-> "France"], <<2>>) }

RunsTargetFetches ==
  {NoPayload, Payload("attacks", [top_0 |-> <<>>])} \cup
  {Payload("attacks", [top_0 |-> <<item>>]) : item \in RunsTargetItems}

\* the first run finds an empty directory
RunsInit ==
  /\ PackageIdle
  /\ pc = MainOrder[1]
  /\ payload = NoPayload
  /\ result = NoResult
  /\ outcome = "none"
  /\ run = 1
  /\ log = <<>>
  /\ files = [f \in FileNames |-> NoFile]
  /\ start = files

\* the script is started again after it ended, normally or on an exception
StartRun ==
  /\ pc \in {"done", "crashed"}
  /\ run < MaxRuns
  /\ run' = run + 1
  /\ start' = files
  /\ log' = <<>>
  /\ outcome' = "none"
  /\ pc' = MainOrder[1]
  /\ UNCHANGED <<payload, result, files>>
  /\ UNCHANGED packageVars

RunsNext ==
  \/ ExtractHttpRequestsOf(RunsHttpFetches)
  \/ ExtractLayer3TargetLocationsOf(RunsTargetFetches)
  \/ SumLayer3TopOriginAttacks
  \/ ExtractOutages
  \/ UpdateMasterWarehouse
  \/ ConvertToIso3
  \/ ExtractAfricanCountries
  \/ AfricanCountryNameUpdater
  \/ AfricanCountryNanFiller
  \/ StartRun

RunsSpec == RunsInit /\ [][RunsNext]_vars

----------------------------------------------------------------------------
(* C11, C12, C19: what a run leaves of the runs before it *)

\* the output tables of a directory
OutputTables(fs) == [f \in DerivedFiles |-> fs[f]]

\* C11: in a run in which update_master_warehouse finds no dataset to merge, no output
\* table is written: from the merge to the end of the run the master, projected and
\* regional tables are as they were when the run started, also when an earlier run
\* left a master table.
C11_ZeroDatasetsFatal ==
  outcome = "no datasets" => OutputTables(files) = OutputTables(start)

\* the extract steps of this run whose fetch_api_data returned None
FetchFailed == {log[i].step : i \in {k \in DOMAIN log : log[k].fetch = "failed"}}

\* the dataset an extract step saves; its metric column has the same name
DatasetOf(step) ==
  CASE step = "extract_http_requests" -> "http_requests_total"
    [] step = "extract_layer3_target_locations" -> "layer3_target_attacks"
    [] step = "extract_outages" -> "outages"

\* the country codes the persisted table of a dataset holds
PersistedCodes(dataset) ==
  {FileRows(files[dataset])[i]["country_code_iso2"] : i \in DOMAIN FileRows(files[dataset])}

\* C12: in any run of a sequence of runs, a dataset whose fetch failed is absent from
\* the master table the run writes: the table has no metric column of that dataset,
\* and every country code in it is a code of some dataset fetched in this run, even
\* if an earlier run persisted a table for the failed dataset.
C12_FetchFailureMeansAbsent ==
  outcome = "written" =>
    /\ \A step \in FetchFailed : DatasetOf(step) \notin FileCols(files[MASTER_WAREHOUSE_FILE])
    /\ \A i \in DOMAIN MasterRows :
         \E step \in ExtractSteps \ FetchFailed :
           MasterRows[i]["country_code_iso2"] \in PersistedCodes(DatasetOf(step))

\* C19: at the end of every run that wrote a projected warehouse, the regional
\* warehouse holds exactly the rows of that projected warehouse whose alternate code
\* is in AFRICAN_COUNTRIES_ISO3, in order, and no row at all when none is, whatever
\* the runs before left in storage.
C19_RegionalRebuilt ==
  (pc = "done" /\ outcome = "written" /\ ProjectedPersisted) =>
    Iso3Of(RegionalRows) = SelectSeq(Iso3Of(ProjectedRows), InRegion)

----------------------------------------------------------------------------
(* The network_data_etl package: main.py and etl/extract/base_extractor.py. *)
(* extract_datasets starts one fetch coroutine per configured dataset and  *)
(* awaits them together; main then walks zip(configs, raw_results).        *)

MaxConfigs == 2

\* etl/config/cloudflare_config.yaml, as bootstrap_etl_project.py writes it
Datasets ==
  { [name |-> "http_requests_total", endpoint |-> "http/top/locations",
     value_key |-> "http_requests_total"],
    [name |-> "ipv4_http_requests", endpoint |-> "http/top/locations/ip_version/ipv4",
     value_key |-> "ipv4_http_requests"] }

DatasetNames == {ds.name : ds \in Datasets}

\* a record the upstream serves for an endpoint: the value tells the endpoint
ItemOf(endpoint) ==
  [clientCountryAlpha2 |-> "KE", clientCountryName |-> "Kenya",
   value |-> IF endpoint = "http/top/locations" THEN 2 ELSE 1]

\* the JSON documents a request to an endpoint can be answered with
Documents(endpoint) ==
  { [errors |-> <<>>],
    [result |-> <<>>],
    [result |-> [main |-> <<>>]],
    [result |-> [main |-> <<ItemOf(endpoint)>>]] }

\* what session.get(url) can end in: an exception of the request, a status
\* raise_for_status rejects, a body .get cannot be called on, or a document
Responses(url) ==
  { [url |-> url, kind |-> k, json |-> <<>>] :
      k \in {"get raises", "raise_for_status raises", "json is a list"} }
  \cup { [url |-> url, kind |-> "json", json |-> doc] : doc \in Documents(url) }

NoResponse == [url |-> "", kind |-> "none", json |-> <<>>]

\* lines 17-23 of base_extractor.py: the result member of the body, {} when
\* the body has none, None when anything raised
fetch_return(response) ==
  IF response.kind # "json" THEN NoPayload
  ELSE Payload("locations", GetOr(response.json, "result", <<>>))

\* lines 27-30: the coroutine fetch(session, ds["endpoint"], ...) of one dataset
Task(ds) ==
  [url |-> ds.endpoint, state |-> "created", response |-> NoResponse,
   ret |-> NoPayload, at |-> 0]

\* how many fetches have returned
Returns(ts) == Cardinality({i \in DOMAIN ts : ts[i].state = "done"})

\* the results in the order the fetches returned (what gather does not do)
gather_AsCompleted(ts) ==
  [i \in DOMAIN ts |-> ts[CHOOSE j \in DOMAIN ts : ts[j].at = i].ret]

\* line 31: asyncio.gather returns the results in the order of its arguments
gather(ts) == [i \in DOMAIN ts |-> ts[i].ret]

\* to_csv.py lines 4-6
save(dir, df, name) == [dir EXCEPT ![name] = ToCsv(df)]

PackageInit ==
  /\ pc = "extract_datasets"
  /\ payload = NoPayload
  /\ result = NoResult
  /\ files = NoFiles
  /\ outcome = "none"
  /\ run = 1
  /\ start = NoFiles
  /\ log = <<>>
  /\ \E n \in 0..MaxConfigs : \E cs \in [1..n -> Datasets] :
       /\ configs = cs
       /\ tasks = [i \in 1..n |-> Task(cs[i])]
  /\ raw_results = <<>>
  /\ pos = 0
  /\ saved = [name \in DatasetNames |-> NoFile]

\* the event loop runs a fetch up to its await of session.get; the tasks
\* gather created are started in the order of the configs
StartFetch(i) ==
  /\ pc = "extract_datasets"
  /\ tasks[i].state = "created"
  /\ \A j \in 1..(i - 1) : tasks[j].state # "created"
  /\ tasks' = [tasks EXCEPT ![i].state = "awaiting"]
  /\ UNCHANGED <<pc, configs, raw_results, pos, saved>>
  /\ UNCHANGED scriptVars

\* the answer to one request arrives, in any order among the requests in
\* flight, and its fetch runs to its return
CompleteFetch(i) ==
  /\ pc = "extract_datasets"
  /\ tasks[i].state = "awaiting"
  /\ \E response \in Responses(tasks[i].url) :
       tasks' = [tasks EXCEPT ![i] = [url |-> @.url, state |-> "done",
                                      response |-> response,
                                      ret |-> fetch_return(response),
                                      at |-> Returns(tasks) + 1]]
  /\ UNCHANGED <<pc, configs, raw_results, pos, saved>>
  /\ UNCHANGED scriptVars

\* main.py line 13: gather is done when every fetch has returned
ExtractDatasetsReturns ==
  /\ pc = "extract_datasets"
  /\ \A i \in DOMAIN tasks : tasks[i].state = "done"
  /\ raw_results' = gather(tasks)
  /\ pos' = 1
  /\ pc' = "zip"
  /\ UNCHANGED <<configs, tasks, saved>>
  /\ UNCHANGED scriptVars

\* main.py lines 15-18: one turn of the loop, or its end
MainLoop ==
  /\ pc = "zip"
  /\ IF pos > Len(configs) \/ pos > Len(raw_results)
     THEN pc' = "done" /\ UNCHANGED <<pos, saved>>
     ELSE LET config == configs[pos]
              raw == raw_results[pos]
          IN /\ pc' = pc
             /\ pos' = pos + 1
             /\ saved' = IF NotData(raw) THEN saved
                         ELSE save(saved, process_top_locations(raw, config.value_key).df,
                                   config.name)
  /\ UNCHANGED <<configs, tasks, raw_results>>
  /\ UNCHANGED scriptVars

PackageNext ==
  \/ \E i \in DOMAIN tasks : StartFetch(i)
  \/ \E i \in DOMAIN tasks : CompleteFetch(i)
  \/ ExtractDatasetsReturns
  \/ MainLoop

PackageSpec == PackageInit /\ [][PackageNext]_vars

----------------------------------------------------------------------------
(* C21 *)

\* the fetch of this response ended in its except branch
FetchFailed21(response) == response.kind # "json"

EveryFetchReturned == \A i \in DOMAIN tasks : tasks[i].state = "done"

\* C21: under every completion order of the fetches, the i-th member of
\* raw_results is what the request to the i-th config's endpoint produced
\* (None exactly when that request failed, its result document otherwise, {}
\* when the body has none), whatever the sibling fetches did; and main
\* normalizes or saves only after every fetch has returned.
C21_FanOutIsolation ==
  /\ (pc \in {"zip", "done"} /\ configs # <<>>) =>
       /\ EveryFetchReturned
       /\ Len(raw_results) = Len(configs)
       /\ \A i \in DOMAIN configs :
            /\ tasks[i].response.url = configs[i].endpoint
            /\ IF FetchFailed21(tasks[i].response)
               THEN raw_results[i] = NoPayload
               ELSE /\ raw_results[i].given
                    /\ raw_results[i].body =
                         IF "result" \in DOMAIN tasks[i].response.json
                         THEN tasks[i].response.json["result"]
                         ELSE <<>>
  /\ (configs # <<>> /\ \E name \in DOMAIN saved : saved[name] # NoFile) =>
       EveryFetchReturned

\* two fetches returned in the reverse of their config order, the first one
\* failed, and main has saved the table of the second
C21_Witness ==
  /\ pc = "done"
  /\ Len(configs) = 2
  /\ tasks[1].at = 2 /\ tasks[2].at = 1
  /\ FetchFailed21(tasks[1].response)
  /\ raw_results[1] = NoPayload
  /\ raw_results[2] = Payload("locations", [main |-> <<ItemOf(configs[2].endpoint)>>])
  /\ saved[configs[2].name] # NoFile
  /\ saved[configs[1].name] = NoFile

----------------------------------------------------------------------------
(* Attack payloads whose values are text *)

\* the values the service reports as JSON strings, and the number each one
\* spells, in tenths (what sum_attacks, lines 816-821, reads out of a cell)
TextValues == ("0.5" :> 5) @@ ("0.3" :> 3)

TextAttackItems ==
  { Event([originCountryAlpha2 |-> o[1], originCountryName |-> o[2],
           targetCountryAlpha2 |-> t[1], targetCountryName |-> t[2]], <<v>>) :
      o \in OriginPairs, t \in TargetPairs, v \in DOMAIN TextValues }

\* one call of an attack normalizer on a list of events, with numbers or
\* with text as values
ValuesInit ==
  /\ PackageIdle
  /\ pc = "payload"
  /\ result = NoResult
  /\ files = NoFiles
  /\ outcome = "none"
  /\ run = 1
  /\ start = NoFiles
  /\ log = <<>>
  /\ \E m \in 1..MaxEvents :
       \/ \E items \in [1..m -> AttackItems] :
            payload = Payload("attacks", [top_0 |-> items])
       \/ \E items \in [1..m -> TextAttackItems] :
            payload = Payload("text attacks", [top_0 |-> items])

ValuesNext ==
  \/ Layer3Attacks
  \/ Layer7Attacks

ValuesSpec == ValuesInit /\ [][ValuesNext]_vars

----------------------------------------------------------------------------
(* C22 *)

RECURSIVE TotalOf(_, _, _)
\* the sum of a column of numbers over the first n rows
TotalOf(rows, col, n) ==
  IF n = 0 THEN 0 ELSE rows[n][col] + TotalOf(rows, col, n - 1)

RECURSIVE TotalOfText(_, _, _)
\* the sum, in tenths, of a column of cells that each spell a number
TotalOfText(rows, col, n) ==
  IF n = 0 THEN 0 ELSE TextValues[rows[n][col]] + TotalOfText(rows, col, n - 1)

\* the metric column of df adds up to the values of the events
ConservesTotal(df, value_key, items, text) ==
  IF text
  THEN /\ \A i \in DOMAIN df.rows : df.rows[i][value_key] \in DOMAIN TextValues
       /\ TotalOfText(df.rows, value_key, Len(df.rows))
            = TotalOfText(items, "value", Len(items))
  ELSE TotalOf(df.rows, value_key, Len(df.rows)) = SumOfValues(items, DOMAIN items)

\* C22: for a non-empty list of attack events, the metric column of the table an
\* attack normalizer returns adds up to the sum of the values of the events (an
\* event without a value counting as 0); when process_layer7_attacks_data
\* returns an origin and a target table, each of the two adds up to that sum.
C22_AggregationConservesTotal ==
  (/\ pc = "normalized"
   /\ result.fn \in AttackNormalizers
   /\ payload.shape \in AttackShapes) =>
    LET items == payload.body["top_0"]
        ret == result.ret
        value_key == IF result.fn = "process_layer3_attacks_data"
                     THEN "layer3_attacks" ELSE "layer7_top_attacks"
    IN items # <<>> =>
         CASE ret.kind = "frame" ->
                ConservesTotal(ret.df, value_key, items, IsText(payload))
           [] ret.kind = "split" ->
                /\ ConservesTotal(ret.origin, "layer7_top_origin_attacks", items,
                                  IsText(payload))
                /\ ConservesTotal(ret.target, "layer7_top_target_attacks", items,
                                  IsText(payload))
           [] OTHER -> FALSE

----------------------------------------------------------------------------
(* C23 *)

\* the storage with the master, the projected and the regional table taken away
WithoutDerived(fs) ==
  [f \in DOMAIN fs |->
     IF f \in {"cloudflare_master_warehouse", "cloudflare_master_warehouse_iso3",
               "cloudflare_african_countries"}
     THEN NoFile ELSE fs[f]]

\* the names of the per-dataset tables in the storage
PerDatasetNames(fs) == {f \in DOMAIN fs : WithoutDerived(fs)[f] # NoFile}

\* the columns the per-dataset tables carry, a legacy table under its new names
PerDatasetCols(fs) ==
  UNION { {IF c \in DOMAIN LegacyColumns THEN LegacyColumns[c] ELSE c :
             c \in FileCols(fs[f])} : f \in PerDatasetNames(fs) }

\* C23: whenever update_master_warehouse writes the master table, in the first
\* run or in a later one that finds the derived tables of earlier runs in the
\* storage, the table written is the one the per-dataset tables alone produce
\* (for some order of the directory listing): the master, projected and
\* regional tables are not among its inputs.  Its columns other than the
\* timestamp are columns of per-dataset tables, and its column set is the same
\* for every listing order, so it cannot grow while the per-dataset tables stay
\* as they are.
C23_NoFeedback ==
  [][(pc = "update_master_warehouse" /\ outcome' = "written") =>
       LET master == files'["cloudflare_master_warehouse"]
           alone(listing) == update_master_warehouse(WithoutDerived(files), listing)
           orders == Listings(PerDatasetNames(files))
       IN /\ \E listing \in orders :
               /\ alone(listing).outcome = "written"
               /\ alone(listing).files["cloudflare_master_warehouse"] = master
          /\ FileCols(master) \ {"timestamp"} \subseteq PerDatasetCols(files)
          /\ \A listing \in orders :
               alone(listing).outcome = "written" =>
                 FileCols(alone(listing).files["cloudflare_master_warehouse"])
                   = FileCols(master)]_vars

\* the second run has merged: it found the three derived tables of the first
\* run in the storage and wrote a master table with other rows
C23_Witness ==
  /\ run = 2
  /\ pc = Following("update_master_warehouse")
  /\ outcome = "written"
  /\ \A f \in DerivedFiles : start[f] # NoFile
  /\ files["cloudflare_master_warehouse"] # start["cloudflare_master_warehouse"]

----------------------------------------------------------------------------
(* C24 *)

\* the names the loaded per-dataset tables record for a country code
NamesRecorded(code) ==
  UNION { { d.df.rows[i]["country_name"] :
              i \in {j \in DOMAIN d.df.rows : d.df.rows[j]["country_code_iso2"] = code} } :
          d \in {e \in LoadedDatasets :
                   {"country_code_iso2", "country_name"} \subseteq e.df.cols} }

\* C24: in the master table update_master_warehouse wrote, the name of every row
\* with a country code is a name some loaded dataset recorded for that code; a
\* code only a dataset other than the base reports, with a name, has that name
\* and not a missing one.
C24_MasterNamesFromDatasets ==
  (outcome = "written" /\ "country_name" \in FileCols(files[MASTER_WAREHOUSE_FILE])) =>
    \A i \in DOMAIN MasterRows :
      LET code == MasterRows[i]["country_code_iso2"]
          recorded == NamesRecorded(code)
      IN (code # Blank /\ recorded \ {None} # {}) =>
           ReadCell("country_name", MasterRows[i]["country_name"]) \in recorded \ {None}

----------------------------------------------------------------------------
(* C25 *)

\* C25: every country code that save_to_csv wrote into a table of the storage
\* is read back by pd.read_csv as the text that was written; the code 'NA' is
\* read back as 'NA' and not as a missing value.  (A missing code is written
\* as an empty cell, so the cells that are not empty are the codes written.)
C25_RoundTripPreservesCodes ==
  \A f \in DOMAIN files :
    (files[f].kind = "csv" /\ "country_code_iso2" \in files[f].cols) =>
      \A i \in DOMAIN files[f].rows :
        LET written == files[f].rows[i]["country_code_iso2"]
        IN written # Blank =>
             ReadCsv(files[f]).df.rows[i]["country_code_iso2"] = written

====
